---- MODULE Spec2Model ----
(***************************************************************************)
(* A model of src/main.py (class DataCleaner): the deduplication, the      *)
(* field parsers, the batch transformation, the row-at-a-time insert, the  *)
(* exports and the run that sequences them.                                *)
(*                                                                         *)
(* Text is a sequence of one-character strings, so that strip, split,     *)
(* replace and strptime are computed character by character.  A cell of a *)
(* data frame is a tagged value: null (NaN/None), str, int, float (in      *)
(* tenths) or list (a sequence of texts).                                  *)
(***************************************************************************)
EXTENDS Integers, Sequences, FiniteSets, TLC

VARIABLES
    pc,        \* where the operation under study stands
    platform,  \* what the interpreter and its libraries decide, fixed per run
    arg,       \* the argument of the function under study
    ret,       \* what it returned, raised and logged
    locals,    \* run(): its local variables
    call,      \* the insert_to_database or get_table_count call in progress
    db,        \* the statements executed and the commits, by table
    files,     \* the frame handed to the CSV export, the object to the JSON one
    log        \* what the run has logged

vars == <<pc, platform, arg, ret, locals, call, db, files, log>>
harnessVars == <<arg, ret>>
runVars == <<locals, call, db, files, log>>

(***************************************************************************)
(* Cell values                                                             *)
(***************************************************************************)
Null == [k |-> "null"]
Str(s) == [k |-> "str", s |-> s]
IntVal(n) == [k |-> "int", n |-> n]
FloatVal(tenths) == [k |-> "float", f |-> tenths]
ListVal(l) == [k |-> "list", l |-> l]

\* pd.isna / pd.notna on a scalar cell
isna(x) == x.k = "null"
notna(x) == ~isna(x)

\* x == '' in Python: only the empty str equals ''
IsEmptyStr(x) == x.k = "str" /\ x.s = <<>>

(***************************************************************************)
(* Text helpers (Python str methods)                                       *)
(***************************************************************************)
Whitespace == {" ", "\t"}
DigitChars == <<"0", "1", "2", "3", "4", "5", "6", "7", "8", "9">>
Digits == {DigitChars[i] : i \in 1..10}
NonZeroDigits == Digits \ {"0"}
DigitVal(c) == (CHOOSE i \in 1..10 : DigitChars[i] = c) - 1

Range(f) == {f[i] : i \in DOMAIN f}

RECURSIVE lstrip(_, _)
lstrip(s, chars) ==
    IF s # <<>> /\ Head(s) \in chars THEN lstrip(Tail(s), chars) ELSE s

RECURSIVE rstrip(_, _)
rstrip(s, chars) ==
    IF s # <<>> /\ s[Len(s)] \in chars
    THEN rstrip(SubSeq(s, 1, Len(s) - 1), chars)
    ELSE s

\* str.strip(chars): every leading and every trailing character in chars
strip(s, chars) == rstrip(lstrip(s, chars), chars)

\* a float (in tenths) cut to its integer part, towards zero
Truncate(tenths) == IF tenths >= 0 THEN tenths \div 10 ELSE -((-tenths) \div 10)

RECURSIVE IntText(_)
IntText(n) ==
    IF n < 0 THEN <<"-">> \o IntText(-n)
    ELSE IF n < 10 THEN <<DigitChars[n + 1]>>
    ELSE IntText(n \div 10) \o <<DigitChars[(n % 10) + 1]>>

\* str(x) of a scalar cell
str(x) ==
    CASE x.k = "str" -> x.s
      [] x.k = "null" -> <<"n", "a", "n">>
      [] x.k = "int" -> IntText(x.n)
      [] x.k = "float" ->
            (IF x.f < 0 THEN <<"-">> ELSE <<>>)
                \o IntText(Truncate(IF x.f < 0 THEN -x.f ELSE x.f))
                \o <<".", DigitChars[((IF x.f < 0 THEN -x.f ELSE x.f) % 10) + 1]>>

(***************************************************************************)
(* datetime.strptime: the format becomes a regular expression, matched     *)
(* from the start of the text with backtracking over each directive's      *)
(* alternatives in their order; the match must then cover the whole text.  *)
(***************************************************************************)
\* the regular expression of a directive: alternatives, each a sequence of
\* character classes (CPython _strptime.TimeRE)
Alternatives(tok) ==
    CASE tok = "%d" -> << <<{"3"}, {"0", "1"}>>,
                          <<{"1", "2"}, Digits>>,
                          <<{"0"}, NonZeroDigits>>,
                          <<NonZeroDigits>>,
                          <<{" "}, NonZeroDigits>> >>
      [] tok = "%m" -> << <<{"1"}, {"0", "1", "2"}>>,
                          <<{"0"}, NonZeroDigits>>,
                          <<NonZeroDigits>> >>
      [] tok = "%Y" -> << <<Digits, Digits, Digits, Digits>> >>
      [] OTHER -> << <<{tok}>> >>

PatMatches(pat, s, pos) ==
    /\ pos + Len(pat) - 1 <= Len(s)
    /\ \A j \in 1..Len(pat) : s[pos + j - 1] \in pat[j]

NoMatch == [ok |-> FALSE, end |-> 0, g |-> <<>>]

\* the first match, in the regular expression's priority order, of
\* fmt[i..] at s[pos..]; g lists the matched pieces
RECURSIVE ReMatch(_, _, _, _, _)
ReMatch(fmt, i, s, pos, k) ==
    IF i > Len(fmt) THEN [ok |-> TRUE, end |-> pos, g |-> <<>>]
    ELSE LET alts == Alternatives(fmt[i]) IN
         IF k > Len(alts) THEN NoMatch
         ELSE IF PatMatches(alts[k], s, pos)
              THEN LET rest == ReMatch(fmt, i + 1, s, pos + Len(alts[k]), 1) IN
                   IF rest.ok
                   THEN [ok |-> TRUE, end |-> rest.end,
                         g |-> <<SubSeq(s, pos, pos + Len(alts[k]) - 1)>> \o rest.g]
                   ELSE ReMatch(fmt, i, s, pos, k + 1)
              ELSE ReMatch(fmt, i, s, pos, k + 1)

\* int() of a matched piece (int() skips the blank of " 7")
RECURSIVE ToInt(_)
ToInt(t) ==
    IF t = <<>> THEN 0
    ELSE IF t[Len(t)] \in Digits
         THEN 10 * ToInt(SubSeq(t, 1, Len(t) - 1)) + DigitVal(t[Len(t)])
         ELSE ToInt(SubSeq(t, 1, Len(t) - 1))

IsLeap(y) == (y % 4 = 0 /\ y % 100 # 0) \/ y % 400 = 0
DaysInMonth(y, m) ==
    IF m = 2 THEN (IF IsLeap(y) THEN 29 ELSE 28)
    ELSE IF m \in {4, 6, 9, 11} THEN 30 ELSE 31

\* the datetime constructor's range check
ValidDate(y, m, d) ==
    /\ y \in 1..9999
    /\ m \in 1..12
    /\ d \in 1..DaysInMonth(y, m)

NoDate == [ok |-> FALSE, y |-> 0, m |-> 0, d |-> 0]

FieldOf(fmt, m, tok) ==
    ToInt(m.g[CHOOSE i \in 1..Len(fmt) : fmt[i] = tok])

\* datetime.strptime(s, fmt): ok, or ValueError (ok = FALSE)
strptime(s, fmt) ==
    LET m == ReMatch(fmt, 1, s, 1, 1) IN
    IF ~m.ok \/ m.end # Len(s) + 1 THEN NoDate
    ELSE LET y == FieldOf(fmt, m, "%Y")
             mo == FieldOf(fmt, m, "%m")
             d == FieldOf(fmt, m, "%d")
         IN IF ValidDate(y, mo, d) THEN [ok |-> TRUE, y |-> y, m |-> mo, d |-> d]
            ELSE NoDate

Pad2(n) == <<DigitChars[((n \div 10) % 10) + 1], DigitChars[(n % 10) + 1]>>
Pad4(n) == Pad2(n \div 100) \o Pad2(n % 100)

\* strftime('%Y-%m-%d').  The C library formats %Y: glibc prints a year
\* below 1000 without leading zeros, other builds pad it to four digits.
strftime(dt, padYear) ==
    (IF padYear THEN Pad4(dt.y) ELSE lstrip(Pad4(dt.y), {"0"}))
        \o <<"-">> \o Pad2(dt.m) \o <<"-">> \o Pad2(dt.d)

date_formats ==
    << <<"%d", "/", "%m", "/", "%Y">>,
       <<"%m", "/", "%d", "/", "%Y">>,
       <<"%Y", "-", "%m", "-", "%d">>,
       <<"%d", "-", "%m", "-", "%Y">>,
       <<"%Y", "/", "%m", "/", "%d">>,
       <<"%d", ".", "%m", ".", "%Y">>,
       <<"%Y", "%m", "%d">> >>

\* the formats that parse s, by their place in the list
ParsingFormats(s, formats) ==
    {i \in 1..Len(formats) : strptime(s, formats[i]).ok}

Min(S) == CHOOSE x \in S : \A y \in S : x <= y

\* pd.to_datetime(s, dayfirst=True).strftime(...) of line 116, a parser of
\* the pandas library: it raises (ok = FALSE) unless the text is one that
\* parser accepts, and then yields a date.
\* A year-month-day text with a year of three digits is read as that
\* date, any other accepted text as a date of its own.
to_datetime(s, permissive) ==
    IF s \notin permissive THEN NoDate
    ELSE LET short == strptime(<<"0">> \o s, date_formats[3]) IN
         IF short.ok THEN short ELSE [ok |-> TRUE, y |-> 2024, m |-> 4, d |-> 13]

Returned(x) == [value |-> x, warned |-> FALSE, raised |-> FALSE]
Warned(x) == [value |-> x, warned |-> TRUE, raised |-> FALSE]
Raised == [value |-> Null, warned |-> FALSE, raised |-> TRUE]

\* `pd.isna(date_str) or date_str == ''` (line 93)
date_is_missing_isna_only(date_str) == isna(date_str)
date_is_missing(date_str) == isna(date_str) \/ IsEmptyStr(date_str)

\* "returning as-is" (lines 119-120): date_str, which line 96 has replaced
\* by its stripped text
as_is_raw(raw, stripped) == raw
as_is(raw, stripped) == stripped

\* DataCleaner._parse_date
_parse_date(date_str, permissive, padYear) ==
    IF date_is_missing(date_str)
    THEN Returned(Null)
    ELSE LET s == strip(str(date_str), Whitespace)
             hits == ParsingFormats(s, date_formats)
         IN IF hits # {}
            THEN Returned(Str(strftime(strptime(s, date_formats[Min(hits)]), padYear)))
            ELSE IF to_datetime(s, permissive).ok
                 THEN Returned(Str(strftime(to_datetime(s, permissive), padYear)))
                 ELSE Warned(Str(as_is(str(date_str), s)))

(***************************************************************************)
(* Inputs of the date parser                                               *)
(***************************************************************************)
DateParts ==
    { <<"1", "3">>, <<"0", "4">>, <<"3">>, <<"3", "1">>, <<"0", "2">>,
      <<"2", "9">>, <<"2", "0", "2", "4">>, <<"2", "0", "2", "3">>,
      <<"0", "9", "9", "9">> }
DateSeparators == { <<"/">>, <<"-">>, <<".">>, <<>> }
DatePadding == { <<>>, <<" ">> }

DateTexts ==
    { l \o a \o sep \o b \o sep \o c \o r :
        a \in DateParts, b \in DateParts, c \in DateParts,
        sep \in DateSeparators, l \in DatePadding, r \in DatePadding }
    \cup { <<>>, <<" ">>,
           <<"n", "o", "t", "-", "a", "-", "d", "a", "t", "e">>,
           <<" ", "n", "o", "t", "-", "a", "-", "d", "a", "t", "e", " ">>,
           <<"0", "4", "/", " ", "3", "/", "2", "0", "2", "4">>,
           <<"0", "0", "0", "0", "-", "0", "1", "-", "0", "1">> }

DateInputs == {Null} \cup {Str(t) : t \in DateTexts}

\* the texts of the frames below that no fixed format parses; the
\* permissive parse accepts some of them
FallbackTexts ==
    { <<"n", "o", "t", "-", "a", "-", "d", "a", "t", "e">>,
      <<"9", "9", "9", "-", "0", "4", "-", "1", "3">> }

\* padYear: strftime pads a year below 1000 to four digits.
\* emptyArrayRaises: bool() of an empty numpy array raises (it is an error
\* in recent numpy releases, False with a warning in older ones).
\* permissive: the texts pd.to_datetime accepts.
Platforms ==
    [padYear : BOOLEAN, emptyArrayRaises : BOOLEAN, permissive : SUBSET FallbackTexts]

NoRet == [value |-> Null, warned |-> FALSE, raised |-> FALSE]

(***************************************************************************)
(* The state of a run, and its idle value while a single function is       *)
(* studied                                                                 *)
(***************************************************************************)
max_retries == 5

NoFrame == [columns |-> <<>>, rows |-> <<>>, names_is_text |-> TRUE]
NoFile == [written |-> FALSE]
NoCall == [op |-> "none", table |-> "", is_reject |-> FALSE, at |-> "",
           attempts |-> <<>>, i |-> 0, inserted_count |-> 0, error_count |-> 0]
InitLocals ==
    [df |-> NoFrame, clean_data |-> NoFrame, duplicate_data |-> NoFrame,
     clean_data_transformed |-> NoFrame, duplicate_data_transformed |-> NoFrame,
     data_count |-> 0, data_reject_count |-> 0]
InitDb == [data |-> <<>>, data_reject |-> <<>>, commits |-> <<>>]
InitFiles == [csv |-> NoFile, json |-> NoFile]
InitLog == [exhausted |-> <<>>, completed |-> FALSE, returned |-> <<>>]

IdleRun ==
    /\ locals = InitLocals
    /\ call = NoCall
    /\ db = InitDb
    /\ files = InitFiles
    /\ log = InitLog

(***************************************************************************)
(* The date parser applied to one input                                    *)
(***************************************************************************)
InitParseDate ==
    /\ IdleRun
    /\ pc = "call"
    /\ arg \in DateInputs
    /\ \E padYear \in BOOLEAN, accepts \in BOOLEAN :
           platform = [padYear |-> padYear, emptyArrayRaises |-> FALSE,
                       permissive |-> IF accepts /\ arg.k = "str"
                                      THEN {strip(arg.s, Whitespace)} ELSE {}]
    /\ ret = NoRet

ParseDate ==
    /\ pc = "call"
    /\ ret' = _parse_date(arg, platform.permissive, platform.padYear)
    /\ pc' = "returned"
    /\ UNCHANGED <<platform, arg, runVars>>

NextParseDate == ParseDate

SpecParseDate == InitParseDate /\ [][NextParseDate]_vars

(***************************************************************************)
(* DataCleaner._parse_array                                                *)
(***************************************************************************)
\* str.replace(c, ""): every occurrence of a character of chars removed
RECURSIVE remove(_, _)
remove(s, chars) ==
    IF s = <<>> THEN <<>>
    ELSE IF Head(s) \in chars THEN remove(Tail(s), chars)
         ELSE <<Head(s)>> \o remove(Tail(s), chars)

\* str.split(sep) for a one-character sep: always at least one piece
RECURSIVE split(_, _)
split(s, sep) ==
    IF \A i \in 1..Len(s) : s[i] # sep THEN <<s>>
    ELSE LET i == Min({j \in 1..Len(s) : s[j] = sep}) IN
         <<SubSeq(s, 1, i - 1)>> \o split(SubSeq(s, i + 1, Len(s)), sep)

\* [item.strip() for item in pieces if item.strip()]
RECURSIVE strip_items(_)
strip_items(pieces) ==
    IF pieces = <<>> THEN <<>>
    ELSE LET item == strip(Head(pieces), Whitespace) IN
         (IF item # <<>> THEN <<item>> ELSE <<>>) \o strip_items(Tail(pieces))

\* `pd.isna(value) or value == ''` (line 156).  On a list pd.isna answers
\* with an array, one element per item, and `or` asks for its truth value:
\* that raises ValueError for two items or more, is the one element's
\* answer for one item, and for no item raises or is False by the numpy
\* release.  Answers "true", "false" or "raise".
isna_or_empty(value, emptyArrayRaises) ==
    IF value.k = "list"
    THEN IF Len(value.l) >= 2 THEN "raise"
         ELSE IF Len(value.l) = 0 /\ emptyArrayRaises THEN "raise"
         ELSE "false"
    ELSE IF isna(value) \/ IsEmptyStr(value) THEN "true" ELSE "false"

\* value.strip('[]') (line 160)
strip_one_bracket(s) ==
    LET a == IF s # <<>> /\ Head(s) = "[" THEN Tail(s) ELSE s IN
    IF a # <<>> /\ a[Len(a)] = "]" THEN SubSeq(a, 1, Len(a) - 1) ELSE a
strip_brackets(s) == strip(s, {"[", "]"})

_parse_array(value, emptyArrayRaises) ==
    LET test == isna_or_empty(value, emptyArrayRaises) IN
    IF test = "raise" THEN Raised
    ELSE IF test = "true" THEN Returned(ListVal(<<>>))
    ELSE IF value.k = "str"
         THEN LET stripped == remove(strip_brackets(value.s), {"'", "\""}) IN
              IF stripped # <<>>
              THEN Returned(ListVal(strip_items(split(stripped, ","))))
              ELSE Returned(ListVal(<<>>))
         ELSE Returned(ListVal(<<>>))

(***************************************************************************)
(* Inputs of the array parser                                              *)
(***************************************************************************)
MaxArrayLen == 4
ArrayChars == {"[", "]", "'", "\"", ",", " ", "a"}
ArrayTexts == UNION {[1..n -> ArrayChars] : n \in 0..MaxArrayLen}
ArrayInputs ==
    {Null, IntVal(7), FloatVal(25)}
        \cup {Str(t) : t \in ArrayTexts}
        \cup {Str(<<"[", "[", "a", "]", "]">>), Str(<<"]", "a", ",", "a", "[">>),
              Str(<<"[", "a", ",", " ", "'", "a", "a", "'", ",", " ", "\"", "a", "\"", "]">>)}
        \cup {ListVal(l) : l \in {<<>>, << <<"a">> >>, << <<"a">>, <<"a", "a">> >>}}

InitParseArray ==
    /\ IdleRun
    /\ pc = "call"
    /\ platform \in {p \in Platforms : p.padYear /\ p.permissive = {}}
    /\ arg \in ArrayInputs
    /\ ret = NoRet

ParseArray ==
    /\ pc = "call"
    /\ ret' = _parse_array(arg, platform.emptyArrayRaises)
    /\ pc' = "returned"
    /\ UNCHANGED <<platform, arg, runVars>>

NextParseArray == ParseArray

SpecParseArray == InitParseArray /\ [][NextParseArray]_vars

(***************************************************************************)
(* Data frames: the ordered column names and the rows in order, each row   *)
(* with its index label (which slicing keeps) and its cells by column.     *)
(***************************************************************************)
Row(idx, cells) == [idx |-> idx, cells |-> cells]

\* names_is_text: the names column has the dtype object, the one the .str
\* accessor of line 132 takes.  A frame gets it where it is read and keeps
\* it through slicing and copying: a column with a text, or without rows,
\* is object, a column of missing values only is float64.
Frame(columns, rows) ==
    [columns |-> columns, rows |-> rows,
     names_is_text |-> \/ rows = <<>>
                       \/ "names" \notin {columns[j] : j \in 1..Len(columns)}
                       \/ \E i \in 1..Len(rows) : rows[i].cells["names"].k = "str"]

HasColumn(df, col) == col \in Range(df.columns)

\* df[mask]: the rows whose position is in keep, in their order
RECURSIVE select(_, _, _)
select(rows, keep, i) ==
    IF i > Len(rows) THEN <<>>
    ELSE (IF i \in keep THEN <<rows[i]>> ELSE <<>>) \o select(rows, keep, i + 1)

duplicated_keep_last(df) ==
    {i \in 1..Len(df.rows) :
        \E j \in (i + 1)..Len(df.rows) :
            df.rows[j].cells["ids"] = df.rows[i].cells["ids"]}

\* df.duplicated(subset=['ids'], keep='first'): the positions whose ids
\* value occurred at an earlier position (missing values equal each other)
duplicated(df) ==
    {i \in 1..Len(df.rows) :
        \E j \in 1..(i - 1) : df.rows[j].cells["ids"] = df.rows[i].cells["ids"]}

\* DataCleaner.clean_data: (clean_data, duplicate_data), or the KeyError of
\* a frame without an ids column, logged and raised again
clean_data(df) ==
    IF ~HasColumn(df, "ids") THEN Raised
    ELSE LET duplicates_mask == duplicated(df) IN
         Returned(<<[df EXCEPT !.rows = select(df.rows, (1..Len(df.rows)) \ duplicates_mask, 1)],
                    [df EXCEPT !.rows = select(df.rows, duplicates_mask, 1)]>>)

(***************************************************************************)
(* Inputs of the deduplication: frames of two columns                      *)
(***************************************************************************)
MaxRows == 4
KeyColumns == <<"ids", "names">>
KeyValues == {Null, Str(<<"a">>), Str(<<"b">>)}
NameValues == {Str(<<"x">>), Str(<<"y">>)}
KeyCells == {[c \in Range(KeyColumns) |-> IF c = "ids" THEN i ELSE n] :
                i \in KeyValues, n \in NameValues}

\* read_csv labels the rows 0, 1, 2, ...
Labelled(cells) == [i \in 1..Len(cells) |-> Row(i - 1, cells[i])]

KeyFrames ==
    {Frame(KeyColumns, Labelled(cells)) :
        cells \in UNION {[1..n -> KeyCells] : n \in 0..MaxRows}}
        \cup {Frame(<<"names">>, <<>>)}

InitCleanData ==
    /\ IdleRun
    /\ pc = "call"
    /\ platform \in {p \in Platforms :
                        p.padYear /\ ~p.emptyArrayRaises /\ p.permissive = {}}
    /\ arg \in KeyFrames
    /\ ret = NoRet

CleanData ==
    /\ pc = "call"
    /\ ret' = clean_data(arg)
    /\ pc' = "returned"
    /\ UNCHANGED <<platform, arg, runVars>>

NextCleanData == CleanData

SpecCleanData == InitCleanData /\ [][NextCleanData]_vars

(***************************************************************************)
(* DataCleaner.transform_data                                              *)
(***************************************************************************)
LowerChars == <<"a", "b", "c", "d", "e", "f", "g", "h", "i", "j", "k", "l", "m",
                "n", "o", "p", "q", "r", "s", "t", "u", "v", "w", "x", "y", "z">>
UpperChars == <<"A", "B", "C", "D", "E", "F", "G", "H", "I", "J", "K", "L", "M",
                "N", "O", "P", "Q", "R", "S", "T", "U", "V", "W", "X", "Y", "Z">>

\* str.upper()
upper(s) ==
    [i \in 1..Len(s) |->
        IF s[i] \in Range(LowerChars)
        THEN UpperChars[CHOOSE j \in 1..26 : LowerChars[j] = s[i]]
        ELSE s[i]]

\* Series.str.upper() on a column of text: a cell that is no str becomes NaN
str_upper(x) == IF x.k = "str" THEN Str(upper(x.s)) ELSE Null

IsDigits(s) == s # <<>> /\ \A i \in 1..Len(s) : s[i] \in Digits

\* pd.to_numeric(col, errors='coerce').fillna(0).astype(int) on one cell:
\* a number is cut to an integer, a text of digits is read, anything else
\* is coerced to NaN and filled with 0
coerce_int(x) ==
    CASE x.k = "int" -> IntVal(x.n)
      [] x.k = "float" -> IntVal(Truncate(x.f))
      [] x.k = "str" /\ IsDigits(x.s) -> IntVal(ToInt(x.s))
      [] OTHER -> IntVal(0)

EmptyLike == { <<"n", "a", "n">>, <<"N", "o", "n", "e">> }

\* astype(str).replace('nan', '').replace('None', '') on one cell: replace
\* acts on a cell that is the whole word
normalize_release(x) == IF str(x) \in EmptyLike THEN Str(<<>>) ELSE Str(str(x))

numeric_columns ==
    <<"monthly_listeners", "popularity", "followers", "num_releases", "num_tracks">>
array_columns == <<"genres", "feat_track_ids">>
release_columns == <<"first_release", "last_release">>

Cells(df, cols) ==
    {df.rows[i].cells[c] : i \in 1..Len(df.rows), c \in cols \cap Range(df.columns)}

\* what the column assignments of lines 126-145 make of the cell x of
\* column c; each column is assigned at most once
transform_cell(c, x, pf) ==
    CASE c = "dates" -> _parse_date(x, pf.permissive, pf.padYear).value
      [] c = "names" -> str_upper(x)
      [] c \in Range(numeric_columns) -> coerce_int(x)
      [] c \in Range(array_columns) -> _parse_array(x, pf.emptyArrayRaises).value
      [] c \in Range(release_columns) -> normalize_release(x)
      [] OTHER -> x

\* df['names'].str (line 132) raises AttributeError for a column that is
\* not of text
str_accessor_raises(df) == HasColumn(df, "names") /\ ~df.names_is_text

\* DataCleaner.transform_data: the transformed copy, or the exception of
\* a column or a cell, logged and raised again.  warned: _parse_date
\* logged a warning.
transform_data(df, pf) ==
    IF \/ str_accessor_raises(df)
       \/ \E x \in Cells(df, Range(array_columns)) :
             _parse_array(x, pf.emptyArrayRaises).raised
    THEN Raised
    ELSE [value |-> [df EXCEPT !.rows =
                        [i \in 1..Len(df.rows) |->
                            Row(df.rows[i].idx,
                                [c \in DOMAIN df.rows[i].cells |->
                                    transform_cell(c, df.rows[i].cells[c], pf)])]],
          warned |-> \E x \in Cells(df, {"dates"}) :
                        _parse_date(x, pf.permissive, pf.padYear).warned,
          raised |-> FALSE]

(***************************************************************************)
(* Inputs of the transformation: frames of the thirteen columns of the     *)
(* export, each row the default row with one cell changed                  *)
(***************************************************************************)
AllColumns ==
    <<"dates", "ids", "names", "monthly_listeners", "popularity", "followers",
      "genres", "first_release", "last_release", "num_releases", "num_tracks",
      "playlists_found", "feat_track_ids">>

DefaultCells ==
    [c \in Range(AllColumns) |->
        CASE c = "dates" -> Str(<<"2", "0", "2", "4", "-", "0", "4", "-", "1", "3">>)
          [] c = "ids" -> Str(<<"a">>)
          [] c = "names" -> Str(<<"A", "B">>)
          [] c \in Range(numeric_columns) -> IntVal(42)
          [] c \in Range(array_columns) -> Str(<<>>)
          [] c \in Range(release_columns) -> Str(<<"2", "0", "1", "9">>)
          [] OTHER -> Str(<<"p">>)]

CellChoices(c) ==
    CASE c = "dates" ->
            {Null, IntVal(20240413),
             Str(<<" ", "1", "3", "/", "0", "4", "/", "2", "0", "2", "4">>),
             Str(<<" ", "n", "o", "t", "-", "a", "-", "d", "a", "t", "e">>),
             Str(<<"1", "3", "/", "0", "4", "/", "0", "9", "9", "9">>)}
      [] c = "ids" -> {Null, Str(<<"b">>)}
      [] c = "names" -> {Null, Str(<<"a", " ", "B">>)}
      [] c \in Range(numeric_columns) ->
            {Null, IntVal(-3), FloatVal(25), FloatVal(-25), Str(<<"4", "2">>),
             Str(<<"a", "b", "c">>)}
      [] c \in Range(array_columns) ->
            {Null, Str(<<"[", "]">>), Str(<<"[", "'", "a", "'", "]">>),
             Str(<<"[", "a", ",", " ", "'", "b", " ", "c", "'", "]">>)}
      [] c \in Range(release_columns) ->
            {Null, Str(<<>>), Str(<<"n", "a", "n">>), Str(<<"N", "o", "n", "e">>),
             IntVal(2019), FloatVal(20190)}
      [] OTHER -> {Null}

OneOffCells ==
    {DefaultCells}
        \cup UNION {{[DefaultCells EXCEPT ![c] = x] : x \in CellChoices(c)} :
                        c \in Range(AllColumns)}

MaxTransformRows == 2
OneOffFrames ==
    {Frame(AllColumns, Labelled(cells)) :
        cells \in UNION {[1..n -> OneOffCells] : n \in 0..MaxTransformRows}}

(***************************************************************************)
(* The transformation applied to a frame, and again to its result          *)
(***************************************************************************)
InitTransform ==
    /\ IdleRun
    /\ pc = "first"
    /\ platform \in Platforms
    /\ arg \in OneOffFrames
    /\ ret = <<NoRet, NoRet>>

Transform ==
    /\ pc = "first"
    /\ ret' = <<transform_data(arg, platform), NoRet>>
    /\ pc' = IF ret'[1].raised THEN "raised" ELSE "second"
    /\ UNCHANGED <<platform, arg, runVars>>

TransformAgain ==
    /\ pc = "second"
    /\ ret' = <<ret[1], transform_data(ret[1].value, platform)>>
    /\ pc' = IF ret'[2].raised THEN "raised" ELSE "returned"
    /\ UNCHANGED <<platform, arg, runVars>>

NextTransform == Transform \/ TransformAgain

SpecTransform == InitTransform /\ [][NextTransform]_vars

(***************************************************************************)
(* DataCleaner.save_to_json                                                *)
(***************************************************************************)
\* int(x): ok, or the ValueError/TypeError of a cell that is no number
int(x) ==
    CASE x.k = "int" -> [ok |-> TRUE, n |-> x.n]
      [] x.k = "float" -> [ok |-> TRUE, n |-> Truncate(x.f)]
      [] x.k = "str" /\ IsDigits(strip(x.s, Whitespace)) ->
            [ok |-> TRUE, n |-> ToInt(strip(x.s, Whitespace))]
      [] OTHER -> [ok |-> FALSE, n |-> 0]

json_str_or_empty(x) == IF notna(x) THEN Str(str(x)) ELSE Str(<<>>)
json_int_or_zero(x) == IF notna(x) THEN IntVal(int(x).n) ELSE IntVal(0)
json_list(x) == IF x.k = "list" THEN x ELSE ListVal(<<>>)
json_release(x) ==
    IF notna(x) /\ str(x) \notin (EmptyLike \cup {<<>>}) THEN Str(str(x)) ELSE Str(<<>>)

\* "ids": str(row['ids']) (line 235)
json_ids(x) == Str(str(x))
\* "names": str(row['names']) (line 236)
json_names(x) == Str(str(x))

\* the record of one row (lines 233-247)
json_record(cells) ==
    [dates |-> json_str_or_empty(cells["dates"]),
     ids |-> json_ids(cells["ids"]),
     names |-> json_names(cells["names"]),
     monthly_listeners |-> json_int_or_zero(cells["monthly_listeners"]),
     popularity |-> json_int_or_zero(cells["popularity"]),
     followers |-> json_int_or_zero(cells["followers"]),
     genres |-> json_list(cells["genres"]),
     first_release |-> json_release(cells["first_release"]),
     last_release |-> json_release(cells["last_release"]),
     num_releases |-> json_int_or_zero(cells["num_releases"]),
     num_tracks |-> json_int_or_zero(cells["num_tracks"]),
     playlists_found |-> json_str_or_empty(cells["playlists_found"]),
     feat_track_ids |-> json_list(cells["feat_track_ids"])]

\* the row raises: a column is missing (KeyError) or a number field holds
\* a cell int() refuses
json_row_raises(df, cells) ==
    \/ \E c \in Range(AllColumns) : ~HasColumn(df, c)
    \/ \E c \in Range(numeric_columns) : notna(cells[c]) /\ ~int(cells[c]).ok

\* DataCleaner.save_to_json: the object written, or the exception logged
\* and raised again
save_to_json(df) ==
    IF \E i \in 1..Len(df.rows) : json_row_raises(df, df.rows[i].cells)
    THEN Raised
    ELSE Returned([row_count |-> Len(df.rows),
                   data |-> [i \in 1..Len(df.rows) |-> json_record(df.rows[i].cells)]])

(***************************************************************************)
(* Inputs of the JSON export: transformed frames, and frames with any set  *)
(* of cells missing                                                        *)
(***************************************************************************)
MaxJsonRows == 2
TransformedCells ==
    [DefaultCells EXCEPT !["genres"] = ListVal(<< <<"a">>, <<"b", " ", "c">> >>),
                         !["feat_track_ids"] = ListVal(<<>>),
                         !["last_release"] = Str(<<>>)]
MissingCells(missing) ==
    [c \in Range(AllColumns) |-> IF c \in missing THEN Null ELSE TransformedCells[c]]
OneMissingCells ==
    {MissingCells(missing) : missing \in {{}} \cup {{c} : c \in Range(AllColumns)}}
JsonFrames ==
    {Frame(AllColumns, Labelled(<<MissingCells(missing)>>)) :
        missing \in SUBSET Range(AllColumns)}
    \cup {Frame(AllColumns, Labelled(cells)) :
            cells \in UNION {[1..n -> OneMissingCells] : n \in 0..MaxJsonRows}}
    \cup {Frame(<<"ids", "names">>,
                 Labelled(<<[c \in {"ids", "names"} |-> TransformedCells[c]]>>)),
          Frame(AllColumns,
                Labelled(<<[TransformedCells EXCEPT !["popularity"] =
                                                     Str(<<"a", "b", "c">>)]>>))}

InitSaveJson ==
    /\ IdleRun
    /\ pc = "call"
    /\ platform \in {p \in Platforms :
                        p.padYear /\ ~p.emptyArrayRaises /\ p.permissive = {}}
    /\ arg \in JsonFrames
    /\ ret = NoRet

SaveJson ==
    /\ pc = "call"
    /\ ret' = save_to_json(arg)
    /\ pc' = "returned"
    /\ UNCHANGED <<platform, arg, runVars>>

NextSaveJson == SaveJson

SpecSaveJson == InitSaveJson /\ [][NextSaveJson]_vars

(***************************************************************************)
(* DataCleaner.get_db_connection, insert_to_database, get_table_count      *)
(***************************************************************************)
\* `if attempt < max_retries - 1` (line 56) for the attempt just failed,
\* attempts counted from 0: sleep and try again, else raise
retry_after_every(attempt) == attempt < max_retries
\* `if attempt < max_retries - 1` (line 56): sleep and try again
retry_after(attempt) == attempt < max_retries - 1

\* one pass of the loop of get_db_connection, the connect call answering
\* ok or failing: the attempts made so far and whether it raises
connect_attempt(attempts, ok) ==
    [attempts |-> Append(attempts, ok),
     raises |-> ~ok /\ ~retry_after(Len(attempts))]

DuplicateID == <<"D", "u", "p", "l", "i", "c", "a", "t", "e", " ", "I", "D">>

\* the columns and values of one row's INSERT (lines 175-190)
insert_columns(frame, is_reject) ==
    frame.columns \o (IF is_reject THEN <<"reject_reason">> ELSE <<>>)
insert_values(frame, row, is_reject) ==
    [j \in 1..Len(frame.columns) |->
        LET col == frame.columns[j]
            val == row.cells[col]
        IN IF col \in Range(array_columns)
           THEN (IF val.k = "list" THEN val ELSE ListVal(<<>>))
           ELSE val]
        \o (IF is_reject THEN <<Str(DuplicateID)>> ELSE <<>>)

\* the statement handed to cursor.execute for the row at position i
insert_statement(frame, i, is_reject) ==
    [idx |-> frame.rows[i].idx,
     columns |-> insert_columns(frame, is_reject),
     values |-> insert_values(frame, frame.rows[i], is_reject)]

after_execute_uncounted(c, ok) ==
    [c EXCEPT !.i = @ + 1,
              !.inserted_count = IF ok THEN @ + 1 ELSE @]

\* the counters after the row at c.i was executed (lines 197-203)
after_execute(c, ok) ==
    [c EXCEPT !.i = @ + 1,
              !.inserted_count = IF ok THEN @ + 1 ELSE @,
              !.error_count = IF ok THEN @ ELSE @ + 1]

\* what get_table_count returns when its connection or query failed
\* (lines 273-275)
count_on_failure == 0

Empty(frame) == Len(frame.rows) = 0 \/ Len(frame.columns) = 0

csv_argument_transformed(l) == l.duplicate_data_transformed
\* the frame run() passes to save_to_csv (line 303)
csv_argument(l) == l.duplicate_data
\* the frame run() passes to save_to_json (line 309)
json_argument(l) == l.clean_data_transformed
\* the frame run() passes to insert_to_database (lines 295, 298)
insert_argument(l, table) ==
    IF table = "data" THEN l.clean_data_transformed ELSE l.duplicate_data_transformed

(***************************************************************************)
(* Inputs of the run: raw frames as read_csv yields them                   *)
(***************************************************************************)
MaxRunRows == 3
RawCells(ids, names) ==
    [c \in Range(AllColumns) |->
        CASE c = "dates" -> Str(<<" ", "1", "3", "/", "0", "4", "/", "2", "0", "2", "4">>)
          [] c = "ids" -> ids
          [] c = "names" -> names
          [] c \in Range(numeric_columns) -> Str(<<"4", "2">>)
          [] c \in Range(array_columns) ->
                Str(<<"[", "'", "a", "'", ",", " ", "'", "b", " ", "c", "'", "]">>)
          [] c = "first_release" -> Null
          [] c = "last_release" -> IntVal(2019)
          [] OTHER -> Str(<<"p">>)]
RunCells ==
    {RawCells(Str(<<"a">>), Str(<<"a", "b">>)), RawCells(Str(<<"a">>), Str(<<"c", "d">>)),
     RawCells(Null, Null)}

Project(frame, columns) ==
    Frame(columns,
          [i \in 1..Len(frame.rows) |->
              Row(frame.rows[i].idx, [c \in Range(columns) |-> frame.rows[i].cells[c]])])

FullFrames ==
    {Frame(AllColumns, Labelled(cells)) :
        cells \in UNION {[1..n -> RunCells] : n \in 0..MaxRunRows}}
RunFrames ==
    FullFrames
        \cup {Project(f, <<"names">>) : f \in {g \in FullFrames : Len(g.rows) = 1}}
        \cup {Project(f, <<"ids", "names", "genres">>) :
                f \in {g \in FullFrames : Len(g.rows) = 2}}

(***************************************************************************)
(* DataCleaner.run                                                         *)
(***************************************************************************)
InitRun ==
    /\ pc = "step1"
    /\ platform \in {p \in Platforms : ~p.emptyArrayRaises /\ p.permissive = {}}
    /\ arg = Null
    /\ ret = NoRet
    /\ IdleRun

Fail ==
    /\ pc' = "failed"
    /\ call' = NoCall

\* Step 1: read_csv answers with a frame, or raises
ReadCsv ==
    /\ pc = "step1"
    /\ \/ \E frame \in RunFrames :
              /\ locals' = [locals EXCEPT !.df = frame]
              /\ pc' = "step2"
              /\ UNCHANGED call
       \/ Fail /\ UNCHANGED locals
    /\ UNCHANGED <<platform, harnessVars, db, files, log>>

\* Step 2: clean_data
CleanStep ==
    /\ pc = "step2"
    /\ LET r == clean_data(locals.df) IN
       IF r.raised THEN Fail /\ UNCHANGED locals
       ELSE /\ locals' = [locals EXCEPT !.clean_data = r.value[1],
                                        !.duplicate_data = r.value[2]]
            /\ pc' = "step3"
            /\ UNCHANGED call
    /\ UNCHANGED <<platform, harnessVars, db, files, log>>

\* Step 3: transform_data of the clean frame, then of the duplicate frame
TransformStep ==
    /\ pc = "step3"
    /\ LET c == transform_data(locals.clean_data, platform)
           d == transform_data(locals.duplicate_data, platform)
       IN IF c.raised \/ d.raised THEN Fail /\ UNCHANGED locals
          ELSE /\ locals' = [locals EXCEPT !.clean_data_transformed = c.value,
                                           !.duplicate_data_transformed = d.value]
               /\ pc' = "step4_data"
               /\ UNCHANGED call
    /\ UNCHANGED <<platform, harnessVars, db, files, log>>

InsertTable == [step4_data |-> "data", step4_reject |-> "data_reject"]
AfterInsert == [step4_data |-> "step4_reject", step4_reject |-> "step5"]

\* Step 4: `if not frame.empty: self.insert_to_database(...)`; the call
\* starts by asking for a connection
BeginInsert ==
    /\ pc \in DOMAIN InsertTable
    /\ call.op = "none"
    /\ IF Empty(insert_argument(locals, InsertTable[pc]))
       THEN pc' = AfterInsert[pc] /\ UNCHANGED call
       ELSE /\ call' = [NoCall EXCEPT !.op = "insert", !.table = InsertTable[pc],
                                      !.is_reject = (pc = "step4_reject"),
                                      !.at = "connect"]
            /\ UNCHANGED pc
    /\ UNCHANGED <<platform, harnessVars, locals, db, files, log>>

CountAfter == [step7_data |-> "step7_reject", step7_reject |-> "report"]
CountTable == [step7_data |-> "data", step7_reject |-> "data_reject"]
CountLocal == [step7_data |-> "data_count", step7_reject |-> "data_reject_count"]

\* get_table_count returns n
CountReturns(n) ==
    /\ locals' = [locals EXCEPT ![CountLocal[pc]] = n]
    /\ pc' = CountAfter[pc]
    /\ call' = NoCall

\* one attempt of get_db_connection: it returns the connection, sleeps
\* and tries again, or raises; insert_to_database logs and raises again,
\* which ends the run, get_table_count logs and returns 0
Connect ==
    /\ call.op \in {"insert", "count"}
    /\ call.at = "connect"
    /\ \E ok \in BOOLEAN :
         LET a == connect_attempt(call.attempts, ok) IN
         IF ok
         THEN /\ call' = [call EXCEPT !.attempts = a.attempts,
                                      !.at = IF call.op = "insert" THEN "rows" ELSE "query",
                                      !.i = 1]
              /\ UNCHANGED <<pc, locals, log>>
         ELSE IF ~a.raises
         THEN /\ call' = [call EXCEPT !.attempts = a.attempts]
              /\ UNCHANGED <<pc, locals, log>>
         ELSE /\ log' = [log EXCEPT !.exhausted = Append(@, [op |-> call.op, table |-> call.table])]
              /\ IF call.op = "insert"
                 THEN Fail /\ UNCHANGED locals
                 ELSE CountReturns(count_on_failure)
    /\ UNCHANGED <<platform, harnessVars, db, files>>

\* one pass of the loop over df.iterrows(): the row's INSERT is executed;
\* a failure is logged and counted and the loop goes on
InsertRow ==
    /\ call.op = "insert"
    /\ call.at = "rows"
    /\ call.i <= Len(insert_argument(locals, call.table).rows)
    /\ \E ok \in BOOLEAN :
         /\ db' = [db EXCEPT ![call.table] =
                       Append(@, [statement |->
                                      insert_statement(insert_argument(locals, call.table),
                                                       call.i, call.is_reject),
                                  ok |-> ok])]
         /\ call' = after_execute(call, ok)
    /\ UNCHANGED <<pc, platform, harnessVars, locals, files, log>>

\* after the loop: conn.commit() and the two close calls; a failing commit
\* is logged and raised again
Commit ==
    /\ call.op = "insert"
    /\ call.at = "rows"
    /\ call.i > Len(insert_argument(locals, call.table).rows)
    /\ \/ /\ db' = [db EXCEPT !.commits = Append(@, call.table)]
          /\ log' = [log EXCEPT !.returned =
                         Append(@, [table |-> call.table,
                                    inserted_count |-> call.inserted_count,
                                    error_count |-> call.error_count])]
          /\ pc' = AfterInsert[pc]
          /\ call' = NoCall
       \/ Fail /\ UNCHANGED <<db, log>>
    /\ UNCHANGED <<platform, harnessVars, locals, files>>

\* Step 5: save_to_csv of the duplicate frame unless it is empty; the
\* write may fail
SaveCsv ==
    /\ pc = "step5"
    /\ IF Empty(locals.duplicate_data)
       THEN pc' = "step6" /\ UNCHANGED <<files, call>>
       ELSE \/ /\ files' = [files EXCEPT !.csv = [written |-> TRUE,
                                                   frame |-> csv_argument(locals)]]
               /\ pc' = "step6"
               /\ UNCHANGED call
            \/ Fail /\ UNCHANGED files
    /\ UNCHANGED <<platform, harnessVars, locals, db, log>>

\* Step 6: save_to_json of the transformed clean frame
SaveJsonStep ==
    /\ pc = "step6"
    /\ LET r == save_to_json(json_argument(locals)) IN
       IF r.raised THEN Fail /\ UNCHANGED files
       ELSE /\ files' = [files EXCEPT !.json = [written |-> TRUE, object |-> r.value]]
            /\ pc' = "step7_data"
            /\ UNCHANGED call
    /\ UNCHANGED <<platform, harnessVars, locals, db, log>>

\* Step 7: get_table_count asks for a connection
BeginCount ==
    /\ pc \in DOMAIN CountTable
    /\ call.op = "none"
    /\ call' = [NoCall EXCEPT !.op = "count", !.table = CountTable[pc],
                              !.at = "connect"]
    /\ UNCHANGED <<pc, platform, harnessVars, locals, db, files, log>>

\* the rows of a table: the statements that succeeded, once committed
Committed(table) ==
    IF table \in Range(db.commits)
    THEN Cardinality({j \in 1..Len(db[table]) : db[table][j].ok})
    ELSE 0

\* SELECT COUNT(*): the count, or a failure answered with 0
Query ==
    /\ call.op = "count"
    /\ call.at = "query"
    /\ \E ok \in BOOLEAN :
         CountReturns(IF ok THEN Committed(call.table) ELSE count_on_failure)
    /\ UNCHANGED <<platform, harnessVars, db, files, log>>

\* "Process Completed Successfully!"
Report ==
    /\ pc = "report"
    /\ log' = [log EXCEPT !.completed = TRUE]
    /\ pc' = "done"
    /\ UNCHANGED <<platform, harnessVars, locals, call, db, files>>

Next ==
    \/ ReadCsv \/ CleanStep \/ TransformStep
    \/ BeginInsert \/ Connect \/ InsertRow \/ Commit
    \/ SaveCsv \/ SaveJsonStep
    \/ BeginCount \/ Query \/ Report

Spec == InitRun /\ [][Next]_vars

(***************************************************************************)
(* Properties                                                              *)
(***************************************************************************)
IsIncreasing(rows) ==
    \A i, j \in 1..Len(rows) : i < j => rows[i].idx < rows[j].idx

\* C1: clean_data returns a stable partition of the frame: every row is in
\* exactly one of the two frames and unchanged, each frame keeps the rows
\* in their order, and a row is in the clean frame exactly when no earlier
\* row has its ids value (a missing ids is a value like any other).
C1_StablePartition ==
    (pc = "returned" /\ HasColumn(arg, "ids")) =>
        /\ ~ret.raised
        /\ LET rows == arg.rows
               clean == ret.value[1]
               dup == ret.value[2]
               IsFirst(i) == \A j \in 1..(i - 1) :
                                rows[j].cells["ids"] # rows[i].cells["ids"]
           IN /\ clean.columns = arg.columns /\ dup.columns = arg.columns
              /\ Len(clean.rows) + Len(dup.rows) = Len(rows)
              /\ IsIncreasing(clean.rows) /\ IsIncreasing(dup.rows)
              /\ \A i \in 1..Len(rows) :
                    IF IsFirst(i)
                    THEN rows[i] \in Range(clean.rows) /\ rows[i] \notin Range(dup.rows)
                    ELSE rows[i] \in Range(dup.rows) /\ rows[i] \notin Range(clean.rows)

\* a frame with a missing ids twice and a repeated key after another key
C1_Witness ==
    /\ pc = "returned"
    /\ Len(arg.rows) = 4
    /\ arg.rows[1].cells["ids"] = Null /\ arg.rows[3].cells["ids"] = Null
    /\ arg.rows[2].cells["ids"] = arg.rows[4].cells["ids"]
    /\ arg.rows[2].cells["names"] # arg.rows[4].cells["names"]
    /\ Len(ret.value[1].rows) = 2 /\ Len(ret.value[2].rows) = 2

IsoText(dt) == Pad4(dt.y) \o <<"-">> \o Pad2(dt.m) \o <<"-">> \o Pad2(dt.d)

\* the stripped text of a str argument that some fixed format parses
FirstFormatDate(x) ==
    LET s == strip(x.s, Whitespace) IN
    strptime(s, date_formats[Min(ParsingFormats(s, date_formats))])
SomeFormatParses(x) ==
    x.k = "str" /\ ParsingFormats(strip(x.s, Whitespace), date_formats) # {}

\* a text YYYY-MM-DD of digits
IsIsoShaped(s) ==
    /\ Len(s) = 10
    /\ \A i \in {1, 2, 3, 4, 6, 7, 9, 10} : s[i] \in Digits
    /\ s[5] = "-" /\ s[8] = "-"

\* C2: for every non-empty date text, _parse_date returns the date of the
\* first of the seven formats that parses it, written as YYYY-MM-DD; an
\* ISO YYYY-MM-DD input comes back unchanged.
C2_FirstFormatAsIso ==
    (pc = "returned" /\ SomeFormatParses(arg)) =>
        /\ ret = Returned(Str(IsoText(FirstFormatDate(arg))))
        /\ IsIsoShaped(arg.s) => ret.value = arg

\* the same for the years a four-digit %Y is certain for
FirstFormatFromYear1000 ==
    (pc = "returned" /\ SomeFormatParses(arg) /\ FirstFormatDate(arg).y >= 1000) =>
        /\ ret = Returned(Str(IsoText(FirstFormatDate(arg))))
        /\ IsIsoShaped(arg.s) => ret.value = arg

\* C3 as stated: _parse_date returns the empty string for a missing or
\* empty input.
C3_ReturnsEmptyString ==
    (pc = "returned" /\ (isna(arg) \/ IsEmptyStr(arg))) => ret.value = Str(<<>>)

\* C3, amended: for a missing or an empty input _parse_date returns None
\* (a missing value, not the empty string), without a warning.
C3_ReturnsNone ==
    (pc = "returned" /\ (isna(arg) \/ IsEmptyStr(arg))) => ret = Returned(Null)

C3_Witness == pc = "returned" /\ IsEmptyStr(arg) /\ ret.value = Null

\* no fixed format and no permissive parse reads the text of the argument
Unparseable ==
    /\ arg.k = "str" /\ arg.s # <<>>
    /\ ~SomeFormatParses(arg)
    /\ strip(arg.s, Whitespace) \notin platform.permissive

\* r is s without its leading and trailing characters of chars
IsStripOf(r, s, chars) ==
    \E i \in 1..(Len(s) + 1), j \in 0..Len(s) :
        /\ r = SubSeq(s, i, j)
        /\ \A k \in 1..(i - 1) : s[k] \in chars
        /\ \A k \in (j + 1)..Len(s) : s[k] \in chars
        /\ r # <<>> => (r[1] \notin chars /\ r[Len(r)] \notin chars)

\* C4 as stated: an unparseable input comes back as the raw input,
\* unchanged, with a warning and no exception.
C4_ReturnsRawInput ==
    (pc = "returned" /\ Unparseable) => ret = Warned(arg)

\* C4, amended: an unparseable input comes back with its leading and
\* trailing whitespace stripped, with a warning and no exception.
C4_ReturnsStrippedInput ==
    (pc = "returned" /\ Unparseable) =>
        /\ ret.warned /\ ~ret.raised
        /\ ret.value.k = "str"
        /\ IsStripOf(ret.value.s, arg.s, Whitespace)

C4_Witness ==
    /\ pc = "returned"
    /\ arg = Str(<<" ", "n", "o", "t", "-", "a", "-", "d", "a", "t", "e", " ">>)
    /\ ret.warned
    /\ ret.value = Str(<<"n", "o", "t", "-", "a", "-", "d", "a", "t", "e">>)

\* the part of s between its leading and its trailing characters of chars
Core(s, chars) == CHOOSE r \in {SubSeq(s, i, j) : i \in 1..(Len(s) + 1), j \in 0..Len(s)} :
                      IsStripOf(r, s, chars)

Without(s, chars) == SelectSeq(s, LAMBDA c : c \notin chars)

\* the pieces of s between its commas, each stripped, the empty ones dropped
CommaPieces(s) ==
    LET marks == {0, Len(s) + 1} \cup {k \in 1..Len(s) : s[k] = ","}
        Mark(n) == CHOOSE b \in marks : Cardinality({x \in marks : x < b}) = n - 1
        pieces == [n \in 1..(Cardinality(marks) - 1) |->
                      Core(SubSeq(s, Mark(n) + 1, Mark(n + 1) - 1), Whitespace)]
    IN SelectSeq(pieces, LAMBDA piece : piece # <<>>)

\* at most one leading [ and at most one trailing ] removed
OneBracketOff(s) ==
    LET i == IF s # <<>> /\ s[1] = "[" THEN 2 ELSE 1
        j == IF Len(s) >= i /\ s[Len(s)] = "]" THEN Len(s) - 1 ELSE Len(s)
    IN SubSeq(s, i, j)

\* C5 as stated: for a str, the pieces of the text with at most one
\* leading [ and one trailing ] removed and every quote deleted; for
\* anything else the empty list; never an exception.
C5_OneBracketRemoved ==
    pc = "returned" =>
        ret = Returned(ListVal(IF arg.k = "str"
                               THEN CommaPieces(Without(OneBracketOff(arg.s), {"'", "\""}))
                               ELSE <<>>))

\* C5, amended: for a str, the pieces of the text with every leading and
\* every trailing [ and ] removed and every quote deleted; the empty list
\* for a missing value, a number and a list of one item; an exception for
\* a list of two items or more, and for an empty list where the truth
\* value of an empty array is an error.
C5_AllBracketsRemoved ==
    pc = "returned" =>
        IF arg.k = "list" /\ (Len(arg.l) >= 2
                                \/ (Len(arg.l) = 0 /\ platform.emptyArrayRaises))
        THEN ret.raised
        ELSE ret = Returned(ListVal(IF arg.k = "str"
                                    THEN CommaPieces(Without(Core(arg.s, {"[", "]"}),
                                                             {"'", "\""}))
                                    ELSE <<>>))

C5_Witness ==
    /\ pc = "returned"
    /\ arg = Str(<<"[", "[", "a", "]", "]">>)
    /\ ret = Returned(ListVal(<< <<"a">> >>))

\* C6: transform_data is idempotent: transforming a transformed frame
\* does not raise and yields the same frame.
C6_Idempotent ==
    (pc \in {"returned", "raised"} /\ ~ret[1].raised) =>
        /\ ~ret[2].raised
        /\ ret[2].value = ret[1].value

\* the rows of df whose ids an earlier row has, in their order
LaterOccurrences(df) ==
    [df EXCEPT !.rows =
          SelectSeq(df.rows,
                    LAMBDA r : \E j \in 1..Len(df.rows) :
                                  /\ df.rows[j].idx < r.idx
                                  /\ df.rows[j].cells["ids"] = r.cells["ids"])]

\* the statement is the INSERT of the row of frame it names, with the
\* values of extra after the row's cells
IsInsertOf(statement, frame, extra) ==
    \E i \in 1..Len(frame.rows) :
        /\ frame.rows[i].idx = statement.idx
        /\ Len(statement.values) = Len(frame.columns) + Len(extra)
        /\ \A k \in 1..Len(frame.columns) :
              statement.values[k] = frame.rows[i].cells[frame.columns[k]]
        /\ \A k \in 1..Len(extra) : statement.values[Len(frame.columns) + k] = extra[k]

\* the frame written by the CSV export is the duplicate frame as
\* clean_data returned it: the columns of the input, its later
\* occurrences with their values, no reject_reason
C7_Export ==
    files.csv.written =>
        /\ files.csv.frame.columns = locals.df.columns
        /\ files.csv.frame.rows = LaterOccurrences(locals.df).rows
        /\ "reject_reason" \notin Range(files.csv.frame.columns)

\* a step that sends a statement to data_reject sends a transformed
\* duplicate row followed by reject_reason = "Duplicate ID"; a step that
\* sends one to data sends no reject_reason
C7_Send ==
    /\ db.data_reject' # db.data_reject =>
          LET st == db.data_reject'[Len(db.data_reject')].statement IN
          /\ db.data_reject' = Append(db.data_reject, db.data_reject'[Len(db.data_reject')])
          /\ st.columns = locals.df.columns \o <<"reject_reason">>
          /\ IsInsertOf(st, transform_data(LaterOccurrences(locals.df), platform).value,
                        <<Str(DuplicateID)>>)
    /\ db.data' # db.data =>
          /\ db.data' = Append(db.data, db.data'[Len(db.data')])
          /\ "reject_reason" \notin Range(db.data'[Len(db.data')].statement.columns)

\* C7: the frame written by the CSV export is the duplicate frame as
\* clean_data returned it, with the columns and the values of the input
\* and no reject_reason; every statement sent to data_reject is a
\* transformed duplicate row followed by reject_reason = "Duplicate ID";
\* no statement sent to data has a reject_reason.
C7_RawExportTransformedSinks == [](C7_Export) /\ [][C7_Send]_vars

\* a finished run whose duplicate row has the lower-case name in the CSV
\* frame and the upper-case name in the data_reject statement
C7_Witness ==
    /\ pc = "done"
    /\ locals.df.columns = AllColumns
    /\ files.csv.written
    /\ files.csv.frame.rows[1].cells["names"] = Str(<<"c", "d">>)
    /\ Len(db.data) >= 1
    /\ Len(db.data_reject) >= 1
    /\ db.data_reject[1].statement.values[3] = Str(<<"C", "D">>)

JsonStringFields ==
    {"dates", "ids", "names", "first_release", "last_release", "playlists_found"}

\* C8: in the object save_to_json writes, row_count is the number of
\* entries of data, and where a cell is missing the number field is 0 and
\* the string field is the empty string.
C8_MissingDefaults ==
    (pc = "returned" /\ ~ret.raised) =>
        /\ ret.value.row_count = Len(ret.value.data)
        /\ Len(ret.value.data) = Len(arg.rows)
        /\ \A i \in 1..Len(arg.rows) :
              /\ \A c \in Range(numeric_columns) :
                    isna(arg.rows[i].cells[c]) => ret.value.data[i][c] = IntVal(0)
              /\ \A c \in JsonStringFields :
                    isna(arg.rows[i].cells[c]) => ret.value.data[i][c] = Str(<<>>)

\* the idx of the rows of a sequence of rows or of statements
IdxOfRows(rows) == [j \in 1..Len(rows) |-> rows[j].idx]
IdxOfStatements(entries) == [j \in 1..Len(entries) |-> entries[j].statement.idx]
Failures(entries) == {j \in 1..Len(entries) : ~entries[j].ok}
Tables == {"data", "data_reject"}

\* the statements sent so far are those of the first rows of the frame,
\* in order; the two counters add up to their number; a commit follows
\* the statement of the last row and happens once; the counts the call
\* ends with add up to the number of rows
C9_Attempts ==
    /\ \A t \in Tables :
          LET frame == insert_argument(locals, t) IN
          /\ Len(db[t]) <= Len(frame.rows)
          /\ IdxOfStatements(db[t]) = SubSeq(IdxOfRows(frame.rows), 1, Len(db[t]))
          /\ Cardinality({k \in 1..Len(db.commits) : db.commits[k] = t}) <= 1
          /\ t \in Range(db.commits) => Len(db[t]) = Len(frame.rows)
    /\ (call.op = "insert" /\ call.at = "rows") =>
          /\ Len(db[call.table]) = call.i - 1
          /\ call.inserted_count + call.error_count = call.i - 1
          /\ call.error_count = Cardinality(Failures(db[call.table]))
    /\ \A k \in 1..Len(log.returned) :
          LET r == log.returned[k] IN
          /\ r.inserted_count + r.error_count = Len(insert_argument(locals, r.table).rows)
          /\ r.error_count = Cardinality(Failures(db[r.table]))

\* a step that sends a statement leaves the call in its loop, whatever
\* the answer of the database
C9_RowStep ==
    (db.data' # db.data \/ db.data_reject' # db.data_reject) =>
        /\ pc' = pc
        /\ call'.op = "insert" /\ call'.at = "rows"
        /\ db.commits' = db.commits

\* C9: insert_to_database attempts every row once, in the order of the
\* frame, a failing row neither retried nor ending the loop nor raised;
\* inserted_count + error_count ends at the number of rows; it commits
\* once, after the last row.
C9_EachRowOnceThenCommit == [](C9_Attempts) /\ [][C9_RowStep]_vars

\* data was committed after its first row failed and a later one did not
C9_Witness ==
    /\ "data" \in Range(db.commits)
    /\ Len(db.data) >= 2
    /\ ~db.data[1].ok /\ db.data[2].ok
    /\ \E k \in 1..Len(log.returned) :
          log.returned[k].table = "data" /\ log.returned[k].error_count >= 1

\* an acquisition makes at most max_retries attempts and none after a
\* success
C10_Attempts ==
    /\ Len(call.attempts) <= max_retries
    /\ \A k \in 1..(Len(call.attempts) - 1) : ~call.attempts[k]
    /\ Len(call.attempts) = max_retries => call.at # "connect"

\* C10 as stated: at most 5 attempts, none after a success, and every
\* exhausted acquisition ends the run, which then never reports success.
C10_ExhaustionAlwaysFatal ==
    /\ C10_Attempts
    /\ log.exhausted # <<>> => (pc = "failed" /\ ~log.completed)

\* C10, amended: at most 5 attempts, none after a success; an exhausted
\* acquisition of insert_to_database ends the run, which never reports
\* success; an exhausted acquisition of get_table_count does not end the
\* run: the count of that table is reported as 0.
C10_ExhaustionFatalForInsert ==
    /\ C10_Attempts
    /\ \A k \in 1..Len(log.exhausted) :
          LET e == log.exhausted[k] IN
          IF e.op = "insert"
          THEN pc = "failed" /\ ~log.completed
          ELSE /\ pc # "failed"
               /\ locals[IF e.table = "data" THEN "data_count"
                                              ELSE "data_reject_count"] = count_on_failure

\* a run that reported success after the acquisition of the count of
\* data was exhausted, the count 0 although rows were committed
C10_Witness ==
    /\ log.completed
    /\ log.exhausted = <<[op |-> "count", table |-> "data"]>>
    /\ Committed("data") > 0
    /\ locals.data_count = 0

====
